---- MODULE Spec2Model ----
\* DataSource of packages/btc/src/query/source.ts: output lookup (getOutput,
\* getUtxo), UTXO listing (getUtxos) and coin selection (collectSatoshi) on top
\* of the remote service and the DataCache.  Each asynchronous call is a
\* process: it suspends at its remote calls, and other calls on the same
\* DataSource run in between.
EXTENDS Integers, Sequences, FiniteSets, TLC

\* ---------------------------------------------------------------- bounds

\* longest UTXO list the remote service returns
MaxUtxos == 3
\* largest targetAmount requested
MaxTarget == 4
\* longest excludeUtxos list
MaxExclude == 1
\* collectSatoshi calls made on one DataSource in the concurrent specification
MaxCalls == 3
\* most outputs of a transaction the remote service returns
MaxVouts == 2
\* most rows the remote service holds when two calls are compared
MaxListed == 2
\* most calls made on one BtcAssetsApi
MaxRequests == 3
\* most ticks of one polling interval whose callbacks are running at once
MaxTicks == 3

\* ------------------------------------------------------------ value types

\* the calls running on one DataSource
Procs == {1, 2}

\* an absent optional property (internalCacheKey?: string)
NoKey == "undefined"

Keys == {"k1", "k2"}

Addresses == {"addr1"}

\* BtcAssetsApiUtxo rows the remote service can list: txid, vout, value and
\* status.block_height.  Rows b:0 and c:0 tie on block height and vout; row b:1
\* is unconfirmed (reported with block height 0) and carries no value.
Row(t, v, val, h) ==
    [txid |-> t, vout |-> v, value |-> val, status |-> [confirmed |-> h > 0, block_height |-> h]]

\* the status of a row carries no block_height property
NoHeight == -1

RemoteRows ==
    { Row("a", 0, 2, 20), Row("a", 1, 1, 20), Row("b", 0, 2, 10), Row("b", 1, 0, 0),
      Row("c", 0, 1, 10) }

\* an unconfirmed row whose status carries confirmed only
PendingRow(t, v, val) ==
    [txid |-> t, vout |-> v, value |-> val,
     status |-> [confirmed |-> FALSE, block_height |-> NoHeight]]

\* the rows of a getUtxos call: those above and an unconfirmed row without
\* block height
ListedRows == RemoteRows \cup {PendingRow("d", 0, 1)}

Injective(s) == \A i, j \in 1..Len(s) : s[i] = s[j] => i = j

\* every list of at most n distinct members of S
ListsOf(S, n) == UNION { { s \in [1..k -> S] : Injective(s) } : k \in 0..n }

\* the `${utxo.txid}:${utxo.vout}` key of the asset cache
assetsKey(u) == u.txid \o ":" \o ToString(u.vout)

AssetKeys == { assetsKey(r) : r \in ListedRows }

Outpoint(u) == [txid |-> u.txid, vout |-> u.vout]

\* ------------------------------------------------------------------ state

VARIABLES
    pc,              \* where each call stands
    req,             \* the props of each call
    utxos,           \* the candidate list each call iterates
    idx,             \* 1-based position of the next candidate
    collected,       \* the UTXOs accepted so far
    collectedAmount, \* their total value
    result,          \* what each call returned or threw
    cacheUtxos,      \* DataCache: internalCacheKey -> UTXO list
    cacheAssets,     \* DataCache: "txid:vout" -> has RGBPP assets
    started,         \* collectSatoshi calls started, per internalCacheKey
    listCalls,       \* remote UTXO listings issued, per key
    lookupCalls,     \* remote asset lookups issued, per "txid:vout"
    boundSeen,       \* "txid:vout" for which a remote lookup returned assets
    failures,        \* remote failures, per key
    thrown,          \* the error the remote service threw last
    joined,          \* calls that awaited another call's pending producer
    opc,             \* output lookup: where the call stands
    oreq,            \* output lookup: its arguments
    otx,             \* output lookup: the transaction the remote service answered
    oanswered,       \* output lookup: the remote service has answered
    ores,            \* output lookup: what the call returned or threw
    ppc,             \* paymaster lookup: where the call stands
    preply,          \* paymaster lookup: how the remote call ended
    pres,            \* paymaster lookup: what the call returned or threw
    lpc,             \* getUtxos: where the call stands
    lrows,           \* getUtxos: the rows the remote service listed
    lres,            \* getUtxos: what the call returned or threw
    remote,          \* the remote service: the rows it lists, the outputs it binds
    token,           \* BtcAssetsApi: this.token
    app,             \* BtcAssetsApi: this.app is set
    domain,          \* BtcAssetsApi: this.domain is set
    apc,             \* BtcAssetsApi: where each call stands
    areq,            \* BtcAssetsApi: the call, and whether its route requires a token
    afetch,          \* BtcAssetsApi: the Authorization token of the fetch of each call
    aresp,           \* BtcAssetsApi: the response the fetch of each call got
    ares,            \* BtcAssetsApi: what each call returned or threw
    generated,       \* tokens the service has generated for this instance
    forced,          \* init(true) calls made
    acalls,          \* BtcAssetsApi calls made
    interval,        \* polling loop: the interval is set and not cleared
    tpc,             \* polling loop: where the callback of each tick stands
    ready,           \* polling loop: the service has the SPV proof of the BTC tx
    sent,            \* polling loop: sendCkbTx calls made
    tres,            \* polling loop: how the sendCkbTx call of each tick ended
    example,         \* polling loop: the example that set the interval
    rejected         \* polling loop: a callback caught an error, the proof ready

selVars == <<pc, req, utxos, idx, collected, collectedAmount, result>>
cacheVars == <<cacheUtxos, cacheAssets>>
histVars == <<started, listCalls, lookupCalls, boundSeen, failures, thrown, joined>>
outVars == <<opc, oreq, otx, oanswered, ores>>
payVars == <<ppc, preply, pres>>
\* the variables collectSatoshi leaves alone
listVars == <<lpc, lrows, lres>>
apiVars ==
    <<token, app, domain, apc, areq, afetch, aresp, ares, generated, forced, acalls>>
pollVars == <<interval, tpc, ready, sent, tres, example, rejected>>
restVars == <<outVars, payVars, listVars, remote, apiVars, pollVars>>
\* the variables the output lookups, the paymaster lookup, getUtxos leave alone
exceptOut ==
    <<selVars, cacheVars, histVars, payVars, listVars, remote, apiVars, pollVars>>
exceptPay ==
    <<selVars, cacheVars, histVars, outVars, listVars, remote, apiVars, pollVars>>
exceptList ==
    <<selVars, cacheVars, histVars, outVars, payVars, remote, apiVars, pollVars>>
\* the variables of the DataSource and of the polling loop, which a
\* BtcAssetsApi call leaves alone
sourceVars ==
    <<selVars, cacheVars, histVars, outVars, payVars, listVars, remote, pollVars>>
\* the variables a polling loop leaves alone
exceptPoll ==
    <<selVars, cacheVars, histVars, outVars, payVars, listVars, remote, apiVars>>
vars == <<sourceVars, apiVars>>

\* ------------------------------------------------------------ results

\* errors of the remote service, opaque to the DataSource
RemoteErrors == {"ASSETS_API_RESPONSE_ERROR"}

\* the errors a single call is checked against
SelectErrors == {"ASSETS_API_RESPONSE_ERROR", "ASSETS_API_UNAUTHORIZED"}

NoResult ==
    [kind |-> "none", utxos |-> <<>>, satoshi |-> 0, exceedSatoshi |-> 0,
     code |-> "", expected |-> 0, actual |-> 0]

\* a thrown error: its code and, for INSUFFICIENT_UTXO, the amounts of its comment
Thrown(code, expected, actual) ==
    [kind |-> "error", utxos |-> <<>>, satoshi |-> 0, exceedSatoshi |-> 0,
     code |-> code, expected |-> expected, actual |-> actual]

\* ------------------------------------------------------- getUtxos (pure)

\* a JavaScript number that may be NaN
Num(n) == [nan |-> FALSE, n |-> n]
NaN == [nan |-> TRUE, n |-> 0]

\* mutant: a missing block height counts as 0
heightDifferenceZero(aBlockHeight, bBlockHeight) ==
    Num((IF aBlockHeight = NoHeight THEN 0 ELSE aBlockHeight) -
        (IF bBlockHeight = NoHeight THEN 0 ELSE bBlockHeight))

\* aBlockHeight - bBlockHeight: NaN when a row carries no block height
heightDifference(aBlockHeight, bBlockHeight) ==
    IF aBlockHeight = NoHeight \/ bBlockHeight = NoHeight THEN NaN
    ELSE Num(aBlockHeight - bBlockHeight)

\* mutant: the comparator looks at the block height only
compareRowsByHeight(a, b) ==
    IF a.status.block_height # b.status.block_height
    THEN heightDifference(a.status.block_height, b.status.block_height)
    ELSE Num(0)

\* the comparator of the sort: block height, then vout
compareRows(a, b) ==
    IF a.status.block_height # b.status.block_height
    THEN heightDifference(a.status.block_height, b.status.block_height)
    ELSE Num(a.vout - b.vout)

\* Array.prototype.sort reads a comparator result of NaN as +0
sortCompare(a, b) ==
    LET v == compareRows(a, b) IN IF v.nan THEN 0 ELSE v.n

RECURSIVE runLength(_, _, _)
\* the sort's first run: the rows from the first on that keep descending
\* strictly, or that keep not descending; i is the last row of the run so far
runLength(rows, i, isDescending) ==
    IF i = Len(rows) THEN i
    ELSE LET order == sortCompare(rows[i + 1], rows[i])
         IN  IF (isDescending /\ order >= 0) \/ (~isDescending /\ order < 0) THEN i
             ELSE runLength(rows, i + 1, isDescending)

reverseRows(rows) == [i \in 1..Len(rows) |-> rows[Len(rows) + 1 - i]]

\* the rows with their first run in ascending order, and the run's length
countAndMakeRun(rows) ==
    LET isDescending == sortCompare(rows[2], rows[1]) < 0
        n == runLength(rows, 2, isDescending)
    IN  [length |-> n,
         rows |-> IF isDescending
                  THEN reverseRows(SubSeq(rows, 1, n)) \o SubSeq(rows, n + 1, Len(rows))
                  ELSE rows]

RECURSIVE insertionPoint(_, _, _, _)
\* binary search for the place of pivot among rows[left..right-1]
insertionPoint(pivot, rows, left, right) ==
    IF left >= right THEN left
    ELSE LET mid == left + ((right - left) \div 2)
         IN  IF sortCompare(pivot, rows[mid]) < 0
             THEN insertionPoint(pivot, rows, left, mid)
             ELSE insertionPoint(pivot, rows, mid + 1, right)

RECURSIVE binaryInsertionSort(_, _)
\* rows[1..start-1] are in order: the rows from start on are inserted one by one
binaryInsertionSort(rows, start) ==
    IF start > Len(rows) THEN rows
    ELSE LET left == insertionPoint(rows[start], rows, 1, start)
         IN  binaryInsertionSort(
                 SubSeq(rows, 1, left - 1) \o <<rows[start]>> \o
                 SubSeq(rows, left, start - 1) \o SubSeq(rows, start + 1, Len(rows)),
                 start + 1)

\* utxos.sort(comparator) of a short array: the first run, then binary insertion
sortRows(rows) ==
    IF Len(rows) < 2 THEN rows
    ELSE LET run == countAndMakeRun(rows)
         IN  binaryInsertionSort(run.rows, run.length + 1)

\* the Utxo a row maps to: the status is dropped, the address is the caller's
rowToUtxo(address, row) ==
    [address |-> address, txid |-> row.txid, vout |-> row.vout, value |-> row.value]

getUtxos(address, rows) ==
    LET sorted == sortRows(rows)
    IN  [i \in 1..Len(sorted) |-> rowToUtxo(address, sorted[i])]

\* ------------------------------------------------------ getUtxos (steps)

NoList == [kind |-> "none", utxos |-> <<>>, code |-> ""]

\* getUtxos is called and asks the remote service for the rows of the address
getUtxosCall ==
    /\ lpc = "idle"
    /\ lpc' = "getBtcUtxos"
    /\ lrows' = <<>>
    /\ lres' = NoList
    /\ UNCHANGED <<exceptList>>

\* the remote service lists rows: the call returns them sorted and mapped
getUtxosReply(address, rows) ==
    /\ lpc = "getBtcUtxos"
    /\ lpc' = "idle"
    /\ lrows' = rows
    /\ lres' = [kind |-> "list", utxos |-> getUtxos(address, rows), code |-> ""]
    /\ UNCHANGED <<exceptList>>

\* the remote listing fails: the call throws its error
getUtxosFail(err) ==
    /\ lpc = "getBtcUtxos"
    /\ lpc' = "idle"
    /\ lres' = [kind |-> "error", utxos |-> <<>>, code |-> err]
    /\ UNCHANGED <<lrows, exceptList>>

\* ------------------------------------------------- collectSatoshi (pure)

\* mutant: the key is not handed to the cache
utxosCacheKeyDropped(props) == NoKey

\* the key the candidate list is cached under
utxosCacheKey(props) == props.internalCacheKey

\* mutant: the asset lookup is handed to the cache without a key
assetsCacheKeyDropped(utxo) == NoKey

\* the key the asset flag of a candidate is cached under
assetsCacheKey(utxo) == assetsKey(utxo)

\* mutant: the exclusion compares the candidate's value, not its vout
isExcludedByValue(excludeUtxos, utxo) ==
    /\ Len(excludeUtxos) > 0
    /\ \E i \in 1..Len(excludeUtxos) :
          excludeUtxos[i].txid = utxo.txid /\ excludeUtxos[i].vout = utxo.value

\* excludeUtxos.find(...) finds the candidate
isExcluded(excludeUtxos, utxo) ==
    /\ Len(excludeUtxos) > 0
    /\ \E i \in 1..Len(excludeUtxos) :
          excludeUtxos[i].txid = utxo.txid /\ excludeUtxos[i].vout = utxo.vout

\* mutant: a single binding does not count
hasManyRgbppAssets(ckbRgbppAssets) ==
    ckbRgbppAssets.isArray /\ ckbRgbppAssets.length > 1

\* the getter of the asset cache: the remote answer is a non-empty array
hasRgbppAssets(ckbRgbppAssets) ==
    ckbRgbppAssets.isArray /\ ckbRgbppAssets.length > 0

\* mutant: the loop goes on when the amount equals the target
targetExceeded(amount, targetAmount) == amount > targetAmount

\* the break of the loop
targetReached(amount, targetAmount) == amount >= targetAmount

\* mutant: an amount equal to the target is insufficient
isInsufficientOrEqual(allowInsufficient, amount, targetAmount) ==
    ~allowInsufficient /\ amount <= targetAmount

\* the throw after the loop
isInsufficient(allowInsufficient, amount, targetAmount) ==
    ~allowInsufficient /\ amount < targetAmount

\* mutant: the surplus is taken the wrong way round
collectOutcomeNegated(props, list, amount) ==
    IF ~props.allowInsufficient /\ amount < props.targetAmount
    THEN Thrown("INSUFFICIENT_UTXO", props.targetAmount, amount)
    ELSE [kind |-> "ok", utxos |-> list, satoshi |-> amount,
          exceedSatoshi |-> props.targetAmount - amount,
          code |-> "", expected |-> 0, actual |-> 0]

\* what the call returns or throws once the loop has ended
collectOutcome(props, list, amount) ==
    IF isInsufficient(props.allowInsufficient, amount, props.targetAmount)
    THEN Thrown("INSUFFICIENT_UTXO", props.targetAmount, amount)
    ELSE [kind |-> "ok", utxos |-> list, satoshi |-> amount,
          exceedSatoshi |-> amount - props.targetAmount,
          code |-> "", expected |-> 0, actual |-> 0]

\* --------------------------------------------------------------- DataCache

CacheNone == [state |-> "none", value |-> <<>>]
CachePending == [state |-> "pending", value |-> <<>>]
CacheResolved(v) == [state |-> "resolved", value |-> v]

\* how a call with this key finds the cache: "bypass" without a key
cacheState(cache, key) == IF key = NoKey THEN "bypass" ELSE cache[key].state

\* the cache once a producer has settled: a keyed value is stored, a failure
\* is not
cacheSettle(cache, key, outcome) ==
    IF key = NoKey THEN cache
    ELSE [cache EXCEPT ![key] = IF outcome.ok THEN CacheResolved(outcome.value)
                                ELSE CacheNone]

\* the cache once a producer has been started
cacheStart(cache, key) ==
    IF key = NoKey THEN cache ELSE [cache EXCEPT ![key] = CachePending]

\* ------------------------------------------------- collectSatoshi (steps)

ListKeys == Keys \cup {NoKey}

\* collectSatoshi calls started so far
Calls == started[NoKey] + started["k1"] + started["k2"]

\* the calls awaiting the UTXO list of this key together with its producer
utxosWaiters(p, key) ==
    {p} \cup { q \in Procs : pc[q] = "joinUtxos" /\ utxosCacheKey(req[q]) = key }

\* the candidate a call is looking at
candidate(q) == utxos[q][idx[q]]

\* the calls awaiting the asset lookup of this key together with its producer
assetsWaiters(p, k) ==
    {p} \cup { q \in Procs : pc[q] = "joinAssets" /\ assetsKey(candidate(q)) = k }

\* the loop goes on to the next candidate: the current one is skipped when it
\* is excluded or holds assets and accepted otherwise
Advance(S, skip) ==
    /\ idx' = [q \in Procs |-> IF q \in S THEN idx[q] + 1 ELSE idx[q]]
    /\ collected' =
          [q \in Procs |-> IF q \in S /\ ~skip
                           THEN Append(collected[q], candidate(q)) ELSE collected[q]]
    /\ collectedAmount' =
          [q \in Procs |-> IF q \in S /\ ~skip
                           THEN collectedAmount[q] + candidate(q).value
                           ELSE collectedAmount[q]]

\* the calls of S end: their locals are gone
Leave(S) ==
    /\ utxos' = [q \in Procs |-> IF q \in S THEN <<>> ELSE utxos[q]]
    /\ idx' = [q \in Procs |-> IF q \in S THEN 1 ELSE idx[q]]
    /\ collected' = [q \in Procs |-> IF q \in S THEN <<>> ELSE collected[q]]
    /\ collectedAmount' = [q \in Procs |-> IF q \in S THEN 0 ELSE collectedAmount[q]]

\* the call starts: its props are read and the candidate list is asked of the
\* cache, which starts the remote listing unless the key is cached or pending
collectSatoshi(p, props) ==
    LET key == utxosCacheKey(props)
        found == cacheState(cacheUtxos, key)
    IN  /\ pc[p] = "idle"
        /\ Calls < MaxCalls
        /\ started' = [started EXCEPT ![props.internalCacheKey] = @ + 1]
        /\ req' = [req EXCEPT ![p] = props]
        /\ result' = [result EXCEPT ![p] = NoResult]
        /\ collected' = [collected EXCEPT ![p] = <<>>]
        /\ collectedAmount' = [collectedAmount EXCEPT ![p] = 0]
        /\ idx' = [idx EXCEPT ![p] = 1]
        /\ utxos' = [utxos EXCEPT
                       ![p] = IF found = "resolved" THEN cacheUtxos[key].value ELSE <<>>]
        /\ pc' = [pc EXCEPT
                    ![p] = CASE found = "resolved" -> "loop"
                             [] found = "pending" -> "joinUtxos"
                             [] OTHER -> "getUtxos"]
        /\ cacheUtxos' = IF found = "none" THEN cacheStart(cacheUtxos, key) ELSE cacheUtxos
        /\ listCalls' = IF found \in {"none", "bypass"}
                        THEN [listCalls EXCEPT ![key] = @ + 1] ELSE listCalls
        /\ joined' = IF found = "pending" THEN joined \cup {p} ELSE joined \ {p}
        /\ UNCHANGED <<cacheAssets, lookupCalls, boundSeen, failures, thrown, restVars>>

\* mutant: the getter swallows the remote error and yields no candidates
utxosGetterSwallowing(address, reply) ==
    [ok |-> TRUE, value |-> IF reply.ok THEN getUtxos(address, reply.value) ELSE <<>>,
     err |-> ""]

\* the getter handed to optionalCacheUtxos: getUtxos on what the remote listing
\* answered, or its error
utxosGetter(address, reply) ==
    IF reply.ok
    THEN [ok |-> TRUE, value |-> getUtxos(address, reply.value), err |-> ""]
    ELSE [ok |-> FALSE, value |-> <<>>, err |-> reply.err]

\* the producer of the candidate list settles: the cache keeps a list under its
\* key and every call awaiting it goes on with it; an error is thrown to every
\* call awaiting it
settleUtxos(p, outcome) ==
    LET key == utxosCacheKey(req[p])
        S == utxosWaiters(p, key)
    IN  /\ pc[p] = "getUtxos"
        /\ cacheUtxos' = cacheSettle(cacheUtxos, key, outcome)
        /\ IF outcome.ok
           THEN /\ utxos' = [q \in Procs |-> IF q \in S THEN outcome.value ELSE utxos[q]]
                /\ pc' = [q \in Procs |-> IF q \in S THEN "loop" ELSE pc[q]]
                /\ UNCHANGED <<idx, collected, collectedAmount, result>>
           ELSE /\ result' = [q \in Procs |->
                                IF q \in S THEN Thrown(outcome.err, 0, 0) ELSE result[q]]
                /\ pc' = [q \in Procs |-> IF q \in S THEN "idle" ELSE pc[q]]
                /\ Leave(S)
        /\ UNCHANGED <<req, cacheAssets, started, listCalls, lookupCalls, boundSeen,
                       joined, restVars>>

\* the remote listing answers with rows
getBtcUtxosReply(p, rows) ==
    /\ settleUtxos(p, utxosGetter(req[p].address, [ok |-> TRUE, value |-> rows, err |-> ""]))
    /\ UNCHANGED <<failures, thrown>>

\* the remote listing fails
getBtcUtxosFail(p, err) ==
    /\ settleUtxos(p, utxosGetter(req[p].address, [ok |-> FALSE, value |-> <<>>, err |-> err]))
    /\ failures' = [failures EXCEPT ![req[p].internalCacheKey] = @ + 1]
    /\ thrown' = err

\* one pass of the loop over the candidate at idx, up to its await
collectNext(p) ==
    LET u == candidate(p)
        k == assetsKey(u)
        key == assetsCacheKey(u)
        found == cacheState(cacheAssets, key)
    IN  /\ pc[p] = "loop"
        /\ idx[p] <= Len(utxos[p])
        /\ ~targetReached(collectedAmount[p], req[p].targetAmount)
        /\ IF isExcluded(req[p].excludeUtxos, u)
           THEN /\ Advance({p}, TRUE)
                /\ UNCHANGED <<pc, cacheAssets, lookupCalls, joined>>
           ELSE IF ~req[p].onlyNonRgbppUtxos
           THEN /\ Advance({p}, FALSE)
                /\ UNCHANGED <<pc, cacheAssets, lookupCalls, joined>>
           ELSE IF found = "resolved"
           THEN /\ Advance({p}, cacheAssets[key].value)
                /\ UNCHANGED <<pc, cacheAssets, lookupCalls, joined>>
           ELSE IF found = "pending"
           THEN /\ pc' = [pc EXCEPT ![p] = "joinAssets"]
                /\ joined' = joined \cup {p}
                /\ UNCHANGED <<idx, collected, collectedAmount, cacheAssets, lookupCalls>>
           ELSE /\ pc' = [pc EXCEPT ![p] = "getAssets"]
                /\ cacheAssets' = cacheStart(cacheAssets, key)
                /\ lookupCalls' = [lookupCalls EXCEPT ![k] = @ + 1]
                /\ UNCHANGED <<idx, collected, collectedAmount, joined>>
        /\ UNCHANGED <<req, utxos, result, cacheUtxos, started, listCalls, boundSeen,
                       failures, thrown, restVars>>

\* mutant: the getter takes a failed lookup for an output without assets
assetsGetterSwallowing(reply) ==
    [ok |-> TRUE, value |-> IF reply.ok THEN hasRgbppAssets(reply.value) ELSE FALSE,
     err |-> ""]

\* the getter handed to optionalCacheHasRgbppAssets: whether the remote lookup
\* answered with assets, or its error
assetsGetter(reply) ==
    IF reply.ok
    THEN [ok |-> TRUE, value |-> hasRgbppAssets(reply.value), err |-> ""]
    ELSE [ok |-> FALSE, value |-> FALSE, err |-> reply.err]

\* the producer of the asset flag settles: the cache keeps the flag and every
\* call awaiting it skips or accepts its candidate; an error is thrown to every
\* call awaiting it
settleAssets(p, outcome) ==
    LET k == assetsKey(candidate(p))
        S == assetsWaiters(p, k)
    IN  /\ pc[p] = "getAssets"
        /\ cacheAssets' = cacheSettle(cacheAssets, assetsCacheKey(candidate(p)), outcome)
        /\ IF outcome.ok
           THEN /\ Advance(S, outcome.value)
                /\ pc' = [q \in Procs |-> IF q \in S THEN "loop" ELSE pc[q]]
                /\ UNCHANGED <<utxos, result>>
           ELSE /\ result' = [q \in Procs |->
                                IF q \in S THEN Thrown(outcome.err, 0, 0) ELSE result[q]]
                /\ pc' = [q \in Procs |-> IF q \in S THEN "idle" ELSE pc[q]]
                /\ Leave(S)
        /\ UNCHANGED <<req, cacheUtxos, started, listCalls, lookupCalls, joined, restVars>>

\* the remote asset lookup answers with what it holds for the output
getRgbppAssetsReply(p, ckbRgbppAssets) ==
    /\ settleAssets(p, assetsGetter([ok |-> TRUE, value |-> ckbRgbppAssets, err |-> ""]))
    /\ boundSeen' = IF ckbRgbppAssets.isArray /\ ckbRgbppAssets.length # 0
                    THEN boundSeen \cup {assetsKey(candidate(p))} ELSE boundSeen
    /\ UNCHANGED <<failures, thrown>>

\* the remote asset lookup fails
getRgbppAssetsFail(p, err) ==
    /\ settleAssets(p, assetsGetter([ok |-> FALSE,
                                     value |-> [isArray |-> FALSE, length |-> 0],
                                     err |-> err]))
    /\ failures' = [failures EXCEPT ![assetsKey(candidate(p))] = @ + 1]
    /\ thrown' = err
    /\ UNCHANGED boundSeen

\* the loop has ended (target reached or list exhausted): throw or return
collectReturn(p) ==
    /\ pc[p] = "loop"
    /\ ~(idx[p] <= Len(utxos[p]) /\ ~targetReached(collectedAmount[p], req[p].targetAmount))
    /\ result' = [result EXCEPT
                    ![p] = collectOutcome(req[p], collected[p], collectedAmount[p])]
    /\ pc' = [pc EXCEPT ![p] = "idle"]
    /\ Leave({p})
    /\ UNCHANGED <<req, cacheVars, histVars, restVars>>

\* ------------------------------------------------ getOutput, getUtxo (pure)

\* the opcode a data-carrier script starts with
OP_RETURN == 106

\* a transaction hash is a string, here the list of its characters
Hashes == { <<"a", "b">>, <<"0", "x", "a", "b">> }

\* remove0x: the hash without a leading "0x"
remove0x(hash) ==
    IF Len(hash) >= 2 /\ hash[1] = "0" /\ hash[2] = "x"
    THEN SubSeq(hash, 3, Len(hash)) ELSE hash

\* Buffer.from(hex, 'hex'): one byte per pair of hex digits (a hex string is the
\* list of its digits' values)
bufferFromHex(hex) ==
    [i \in 1..(Len(hex) \div 2) |-> 16 * hex[2 * i - 1] + hex[2 * i]]

\* isOpReturnScriptPubkey: the script starts with OP_RETURN
isOpReturnScriptPubkey(script) == Len(script) > 0 /\ script[1] = OP_RETURN

NoAddress == "undefined"

\* outputs a transaction can hold: a data carrier "6a01ab", a payment "0014",
\* and a bare script "51", for which the remote service reports no address
OpReturnVout ==
    [scriptpubkey |-> <<6, 10, 0, 1, 10, 11>>, scriptpubkey_address |-> NoAddress,
     value |-> 0]
PayVout ==
    [scriptpubkey |-> <<0, 0, 1, 4>>, scriptpubkey_address |-> "addr1", value |-> 2]

BareVout ==
    [scriptpubkey |-> <<5, 1>>, scriptpubkey_address |-> NoAddress, value |-> 1]

Vouts == {OpReturnVout, PayVout, BareVout}

\* the remote service knows no such transaction
NoTx == [found |-> FALSE, confirmed |-> FALSE, vout |-> <<>>]

\* the transactions the remote service can answer with
Txs ==
    {NoTx} \cup
    { [found |-> TRUE, confirmed |-> c, vout |-> v] :
        c \in BOOLEAN, v \in UNION { [1..n -> Vouts] : n \in 0..MaxVouts } }

NoOutput ==
    [kind |-> "none", code |-> "", txid |-> <<>>, vout |-> 0, value |-> 0,
     scriptPk |-> <<>>, hasAddress |-> FALSE, address |-> NoAddress]

\* the call returned undefined
Undefined == [NoOutput EXCEPT !.kind = "undefined"]

OutputError(code) == [NoOutput EXCEPT !.kind = "error", !.code = code]

\* getAddressType(address) is handed the address the remote reported.  For an
\* address that is not there it throws, as when it reads the string, or it
\* returns: derives tells which
getAddressTypeThrows(address, derives) == address = NoAddress /\ ~derives

\* what getAddressType throws is thrown by getOutput
AddressTypeError == OutputError("TypeError")

\* mutant: the confirmation is checked after the output index is looked up
getOutputOutcomeLateCheck(hash, index, requireConfirmed, tx, derives) ==
    IF ~tx.found \/ index + 1 \notin DOMAIN tx.vout THEN Undefined
    ELSE IF requireConfirmed /\ ~tx.confirmed THEN OutputError("UNCONFIRMED_UTXO")
    ELSE LET vout == tx.vout[index + 1]
             opReturn == isOpReturnScriptPubkey(bufferFromHex(vout.scriptpubkey))
         IN  IF ~opReturn /\ getAddressTypeThrows(vout.scriptpubkey_address, derives)
             THEN AddressTypeError
             ELSE [kind |-> "output", code |-> "", txid |-> remove0x(hash), vout |-> index,
                   value |-> vout.value, scriptPk |-> vout.scriptpubkey,
                   hasAddress |-> ~opReturn,
                   address |-> vout.scriptpubkey_address]

\* mutant: a missing output index is an error
getOutputOutcomeThrowing(hash, index, requireConfirmed, tx, derives) ==
    IF ~tx.found THEN Undefined
    ELSE IF requireConfirmed /\ ~tx.confirmed THEN OutputError("UNCONFIRMED_UTXO")
    ELSE IF index + 1 \notin DOMAIN tx.vout THEN OutputError("UNKNOWN")
    ELSE LET vout == tx.vout[index + 1]
             opReturn == isOpReturnScriptPubkey(bufferFromHex(vout.scriptpubkey))
         IN  IF ~opReturn /\ getAddressTypeThrows(vout.scriptpubkey_address, derives)
             THEN AddressTypeError
             ELSE [kind |-> "output", code |-> "", txid |-> remove0x(hash), vout |-> index,
                   value |-> vout.value, scriptPk |-> vout.scriptpubkey,
                   hasAddress |-> ~opReturn,
                   address |-> vout.scriptpubkey_address]

\* what getOutput returns or throws on the transaction the remote answered
\* with; the record of an output that is no data carrier is built with
\* getAddressType(vout.scriptpubkey_address), which can throw
getOutputOutcome(hash, index, requireConfirmed, tx, derives) ==
    LET txId == remove0x(hash)
    IN  IF ~tx.found THEN Undefined
        ELSE IF requireConfirmed /\ ~tx.confirmed THEN OutputError("UNCONFIRMED_UTXO")
        ELSE IF index + 1 \notin DOMAIN tx.vout THEN Undefined
        ELSE LET vout == tx.vout[index + 1]
             IN  IF isOpReturnScriptPubkey(bufferFromHex(vout.scriptpubkey))
                 THEN [kind |-> "output", code |-> "", txid |-> txId, vout |-> index,
                       value |-> vout.value, scriptPk |-> vout.scriptpubkey,
                       hasAddress |-> FALSE, address |-> NoAddress]
                 ELSE IF getAddressTypeThrows(vout.scriptpubkey_address, derives)
                 THEN AddressTypeError
                 ELSE [kind |-> "output", code |-> "", txid |-> txId, vout |-> index,
                       value |-> vout.value, scriptPk |-> vout.scriptpubkey,
                       hasAddress |-> TRUE, address |-> vout.scriptpubkey_address]

\* mutant: the output is returned whether or not it has the address property
getUtxoOutcomeUnchecked(hash, index, requireConfirmed, tx, derives) ==
    getOutputOutcome(hash, index, requireConfirmed, tx, derives)

\* what getUtxo returns or throws: getOutput's outcome, but an output without
\* the address property is unspendable
getUtxoOutcome(hash, index, requireConfirmed, tx, derives) ==
    LET output == getOutputOutcome(hash, index, requireConfirmed, tx, derives)
    IN  IF output.kind = "output" /\ ~output.hasAddress
        THEN OutputError("UNSPENDABLE_OUTPUT")
        ELSE output

\* ------------------------------------------------ getOutput, getUtxo (steps)

OutputRequests ==
    [op : {"getOutput", "getUtxo"}, hash : Hashes, index : 0..MaxVouts,
     requireConfirmed : BOOLEAN]

\* getOutput or getUtxo is called and asks the remote service for the transaction
outputCall(r) ==
    /\ opc = "idle"
    /\ opc' = "getTx"
    /\ oreq' = r
    /\ otx' = NoTx
    /\ oanswered' = FALSE
    /\ ores' = NoOutput
    /\ UNCHANGED <<exceptOut>>

\* the remote service answers with the transaction, or with none; derives
\* tells whether getAddressType returns for an address that is not there
getBtcTransactionReply(tx, derives) ==
    /\ opc = "getTx"
    /\ opc' = "idle"
    /\ otx' = tx
    /\ oanswered' = TRUE
    /\ ores' = IF oreq.op = "getUtxo"
               THEN getUtxoOutcome(oreq.hash, oreq.index, oreq.requireConfirmed, tx, derives)
               ELSE getOutputOutcome(oreq.hash, oreq.index, oreq.requireConfirmed, tx, derives)
    /\ UNCHANGED <<oreq, exceptOut>>

\* the remote service fails: the call throws its error
getBtcTransactionFail(err) ==
    /\ opc = "getTx"
    /\ opc' = "idle"
    /\ ores' = OutputError(err)
    /\ UNCHANGED <<oreq, otx, oanswered, exceptOut>>

\* ------------------------------------------------------ getPaymasterOutput

\* errors a remote call can throw: the class of the error object and its code
ServiceErrors ==
    [class : {"BtcAssetsApiError", "Error"},
     code : {"ASSETS_API_RESOURCE_NOT_FOUND", "ASSETS_API_RESPONSE_ERROR"}]

NoError == [class |-> "", code |-> ""]

\* what the remote service reports of its paymaster
PaymasterInfos == [btc_address : {"pm1", "pm2"}, fee : {0, 7}]

\* no reply of the remote service yet
NoReply == [ok |-> FALSE, value |-> <<>>, err |-> NoError]

NoPaymaster == [kind |-> "none", address |-> NoAddress, value |-> 0, err |-> NoError]

\* mutant: every error of the service's class is taken for a missing paymaster
getPaymasterOutputAnyCode(reply) ==
    IF reply.ok
    THEN [kind |-> "output", address |-> reply.value.btc_address,
          value |-> reply.value.fee, err |-> NoError]
    ELSE IF reply.err.class = "BtcAssetsApiError"
    THEN [NoPaymaster EXCEPT !.kind = "undefined"]
    ELSE [NoPaymaster EXCEPT !.kind = "error", !.err = reply.err]

\* what getPaymasterOutput returns or throws on the reply of the remote call
getPaymasterOutput(reply) ==
    IF reply.ok
    THEN [kind |-> "output", address |-> reply.value.btc_address,
          value |-> reply.value.fee, err |-> NoError]
    ELSE IF /\ reply.err.class = "BtcAssetsApiError"
            /\ reply.err.code = "ASSETS_API_RESOURCE_NOT_FOUND"
    THEN [NoPaymaster EXCEPT !.kind = "undefined"]
    ELSE [NoPaymaster EXCEPT !.kind = "error", !.err = reply.err]

\* getPaymasterOutput is called and asks the remote service
paymasterCall ==
    /\ ppc = "idle"
    /\ ppc' = "getInfo"
    /\ preply' = NoReply
    /\ pres' = NoPaymaster
    /\ UNCHANGED <<exceptPay>>

\* the remote service answers with its paymaster
getRgbppPaymasterInfoReply(info) ==
    /\ ppc = "getInfo"
    /\ ppc' = "idle"
    /\ preply' = [ok |-> TRUE, value |-> info, err |-> NoError]
    /\ pres' = getPaymasterOutput(preply')
    /\ UNCHANGED <<exceptPay>>

\* the remote call fails
getRgbppPaymasterInfoFail(err) ==
    /\ ppc = "getInfo"
    /\ ppc' = "idle"
    /\ preply' = [ok |-> FALSE, value |-> <<>>, err |-> err]
    /\ pres' = getPaymasterOutput(preply')
    /\ UNCHANGED <<exceptPay>>

\* ------------------------------------------------------------ BtcAssetsApi

\* this.token is not set
NoToken == ""

\* the token property of an accepted answer of /token/generate: a token, or
\* nothing that init can use (absent, null or the empty string)
Tokens == {"t1", "t2", NoToken}

\* the HTTP statuses of a response; res.ok is a status of 200 to 299
Statuses == {200, 201, 401, 500}

\* the body of a response: whether JSON.parse(text) returns, whether the value
\* it returns is truthy, and the ok property of that value: absent, null, a
\* truthy or a falsy value
Bodies ==
    { [parses |-> FALSE, truthy |-> FALSE, ok |-> "absent"],
      [parses |-> TRUE, truthy |-> FALSE, ok |-> "absent"] } \cup
    [parses : {TRUE}, truthy : {TRUE}, ok : {"absent", "null", "true", "false"}]

Responses == [status : Statuses, body : Bodies]

NoResponse == [status |-> 0, body |-> [parses |-> FALSE, truthy |-> FALSE, ok |-> "absent"]]

NoOutcome == [kind |-> "none", code |-> ""]
Returned == [kind |-> "value", code |-> ""]
ApiError(code) == [kind |-> "error", code |-> code]

\* mutant: the ok flag of the HTTP response decides, the body's ok is not read
requestOutcomeHttpOk(response) ==
    LET json == response.body.parses /\ response.body.truthy
        ok == response.body.parses /\ response.status \in 200..299
    IN  IF ~json
        THEN IF response.status = 200 THEN ApiError("ASSETS_API_RESPONSE_DECODE_ERROR")
             ELSE IF response.status = 401 THEN ApiError("ASSETS_API_UNAUTHORIZED")
             ELSE ApiError("ASSETS_API_RESPONSE_ERROR")
        ELSE IF ~ok THEN ApiError("ASSETS_API_RESPONSE_ERROR")
        ELSE Returned

\* what request returns or throws on the response of its fetch: json is set
\* when the text parses, ok is json?.ok ?? res.ok when it does and false when
\* it does not
requestOutcome(response) ==
    LET json == response.body.parses /\ response.body.truthy
        ok == /\ response.body.parses
              /\ IF response.body.ok \in {"true", "false"}
                 THEN response.body.ok = "true"
                 ELSE response.status \in 200..299
    IN  IF ~json
        THEN IF response.status = 200 THEN ApiError("ASSETS_API_RESPONSE_DECODE_ERROR")
             ELSE IF response.status = 401 THEN ApiError("ASSETS_API_UNAUTHORIZED")
             ELSE ApiError("ASSETS_API_RESPONSE_ERROR")
        ELSE IF ~ok THEN ApiError("ASSETS_API_RESPONSE_ERROR")
        ELSE Returned

\* the Authorization header of a fetch: this.token at the fetch, or none
withAuthHeaders(requireToken, current) ==
    IF requireToken /\ current # NoToken THEN current ELSE NoToken

Requests == [op : {"request"}, requireToken : BOOLEAN, force : {FALSE}]
Inits == [op : {"init"}, requireToken : {FALSE}, force : BOOLEAN]
Generates == [op : {"generateToken"}, requireToken : {FALSE}, force : {FALSE}]
NoRequest == [op |-> "request", requireToken |-> FALSE, force |-> FALSE]

\* request(route, options) up to its first await that leaves the instance:
\* the throw for missing parameters, or init() and with it the fetch of
\* /token/generate, or the fetch of the route
request(p, r) ==
    /\ apc[p] = "idle"
    /\ acalls < MaxRequests
    /\ acalls' = acalls + 1
    /\ areq' = [areq EXCEPT ![p] = r]
    /\ aresp' = [aresp EXCEPT ![p] = NoResponse]
    /\ IF r.requireToken /\ token = NoToken /\ ~(app /\ domain)
       THEN /\ ares' = [ares EXCEPT ![p] = ApiError("ASSETS_API_INVALID_PARAM")]
            /\ UNCHANGED <<apc, afetch>>
       ELSE IF r.requireToken /\ token = NoToken
       THEN /\ apc' = [apc EXCEPT ![p] = "generate"]
            /\ ares' = [ares EXCEPT ![p] = NoOutcome]
            /\ afetch' = [afetch EXCEPT ![p] = NoToken]
       ELSE /\ apc' = [apc EXCEPT ![p] = "fetch"]
            /\ ares' = [ares EXCEPT ![p] = NoOutcome]
            /\ afetch' = [afetch EXCEPT ![p] = withAuthHeaders(r.requireToken, token)]
    /\ UNCHANGED <<token, app, domain, generated, forced, sourceVars>>

\* init(force) up to its await: nothing to do, the throw of generateToken, or
\* the fetch of /token/generate
init(p, r) ==
    /\ apc[p] = "idle"
    /\ acalls < MaxRequests
    /\ acalls' = acalls + 1
    /\ areq' = [areq EXCEPT ![p] = r]
    /\ aresp' = [aresp EXCEPT ![p] = NoResponse]
    /\ afetch' = [afetch EXCEPT ![p] = NoToken]
    /\ forced' = IF r.force THEN forced + 1 ELSE forced
    /\ IF token # NoToken /\ ~r.force
       THEN /\ ares' = [ares EXCEPT ![p] = Returned]
            /\ UNCHANGED apc
       ELSE IF ~app \/ ~domain
       THEN /\ ares' = [ares EXCEPT ![p] = ApiError("ASSETS_API_INVALID_PARAM")]
            /\ UNCHANGED apc
       ELSE /\ apc' = [apc EXCEPT ![p] = "generate"]
            /\ ares' = [ares EXCEPT ![p] = NoOutcome]
    /\ UNCHANGED <<token, app, domain, generated, sourceVars>>

\* generateToken() called on the instance: its throw for missing parameters,
\* or the fetch of /token/generate
generateToken(p, r) ==
    /\ apc[p] = "idle"
    /\ acalls < MaxRequests
    /\ acalls' = acalls + 1
    /\ areq' = [areq EXCEPT ![p] = r]
    /\ aresp' = [aresp EXCEPT ![p] = NoResponse]
    /\ afetch' = [afetch EXCEPT ![p] = NoToken]
    /\ IF ~app \/ ~domain
       THEN /\ ares' = [ares EXCEPT ![p] = ApiError("ASSETS_API_INVALID_PARAM")]
            /\ UNCHANGED apc
       ELSE /\ apc' = [apc EXCEPT ![p] = "generate"]
            /\ ares' = [ares EXCEPT ![p] = NoOutcome]
    /\ UNCHANGED <<token, app, domain, generated, forced, sourceVars>>

\* the fetch of /token/generate is answered.  On a value generateToken
\* returns it; init stores its token in this.token and returns; a request
\* that awaits init is resumed later, after the calls whose continuations are
\* queued before its own.  On an error the call throws it
generateTokenReply(p, response, t) ==
    LET outcome == requestOutcome(response)
    IN  /\ apc[p] = "generate"
        /\ IF outcome.kind = "value"
           THEN /\ generated' = generated + 1
                /\ token' = IF areq[p].op = "generateToken" THEN token ELSE t
                /\ IF areq[p].op = "request"
                   THEN /\ apc' = [apc EXCEPT ![p] = "init"]
                        /\ UNCHANGED ares
                   ELSE /\ apc' = [apc EXCEPT ![p] = "idle"]
                        /\ ares' = [ares EXCEPT ![p] = Returned]
           ELSE /\ apc' = [apc EXCEPT ![p] = "idle"]
                /\ ares' = [ares EXCEPT ![p] = outcome]
                /\ UNCHANGED <<token, generated>>
        /\ UNCHANGED <<app, domain, areq, afetch, aresp, forced, acalls, sourceVars>>

\* request after its await of init(): this.token is read as it is now and the
\* route is fetched
requestFetch(p) ==
    /\ apc[p] = "init"
    /\ apc' = [apc EXCEPT ![p] = "fetch"]
    /\ afetch' = [afetch EXCEPT ![p] = withAuthHeaders(areq[p].requireToken, token)]
    /\ UNCHANGED <<token, app, domain, areq, aresp, ares, generated, forced, acalls,
                   sourceVars>>

\* the fetch of the route is answered: request returns the body or throws
fetchReply(p, response) ==
    /\ apc[p] = "fetch"
    /\ apc' = [apc EXCEPT ![p] = "idle"]
    /\ aresp' = [aresp EXCEPT ![p] = response]
    /\ ares' = [ares EXCEPT ![p] = requestOutcome(response)]
    /\ UNCHANGED <<token, app, domain, areq, afetch, generated, forced, acalls, sourceVars>>

\* a fetch is rejected: the call throws what fetch threw
fetchFail(p) ==
    /\ apc[p] \in {"generate", "fetch"}
    /\ apc' = [apc EXCEPT ![p] = "idle"]
    /\ ares' = [ares EXCEPT ![p] = ApiError("FETCH_FAILED")]
    /\ UNCHANGED <<token, app, domain, areq, afetch, aresp, generated, forced, acalls,
                   sourceVars>>

\* ----------------------------------------------------------- polling loops

\* the callbacks of one interval that can be running at once
Ticks == 1..MaxTicks

\* the two examples that poll for the SPV proof
Examples == {"launchRgppAsset", "distributeRgbppAssetOnBtc"}
NoExample == "none"

\* how a sendCkbTx call ended: the tx hash logged, or the error caught
NoSend == "none"
SendResults == {"txHash", "error"}

\* setInterval fires while the interval is not cleared: the callback logs and
\* calls service.getRgbppSpvProof(btcTxId, 0), whatever the callbacks of
\* earlier ticks are still awaiting
tick(t) ==
    /\ interval
    /\ tpc[t] = "idle"
    /\ tpc' = [tpc EXCEPT ![t] = "getRgbppSpvProof"]
    /\ UNCHANGED <<interval, ready, sent, tres, example, rejected, exceptPoll>>

\* the BTC transaction is confirmed and the service has its SPV proof
spvProofReady ==
    /\ example # NoExample
    /\ ~ready
    /\ ready' = TRUE
    /\ UNCHANGED <<interval, tpc, sent, tres, example, rejected, exceptPoll>>

\* the catch block: the error is logged unless it is a BtcAssetsApiError, and
\* the callback ends
catch(t) ==
    /\ tpc' = [tpc EXCEPT ![t] = "caught"]
    /\ rejected' = (rejected \/ ready)

\* the service answers with the proof: clearInterval(interval), then
\* updateCkbTxWithRealBtcTxId and the call of appendCkbTxWitnesses, which
\* return (ok) or throw
getRgbppSpvProofReply(t, ok) ==
    /\ tpc[t] = "getRgbppSpvProof"
    /\ ready
    /\ interval' = FALSE
    /\ IF ok
       THEN /\ tpc' = [tpc EXCEPT ![t] = "appendCkbTxWitnesses"]
            /\ UNCHANGED rejected
       ELSE catch(t)
    /\ UNCHANGED <<ready, sent, tres, example, exceptPoll>>

\* getRgbppSpvProof rejects, as it does while the service has no proof: the
\* error is caught and the callback ends, the interval as it was
getRgbppSpvProofFail(t) ==
    /\ tpc[t] = "getRgbppSpvProof"
    /\ tpc' = [tpc EXCEPT ![t] = "idle"]
    /\ rejected' = (rejected \/ ready)
    /\ UNCHANGED <<interval, ready, sent, tres, example, exceptPoll>>

\* the callback calls sendCkbTx({ collector, signedTx })
sendCkbTx(t) ==
    /\ sent' = sent + 1
    /\ tpc' = [tpc EXCEPT ![t] = "sendCkbTx"]

\* the witnesses are appended: launchRgppAsset sends the transaction,
\* distributeRgbppAssetOnBtc first appends the issuer cell
appendCkbTxWitnessesReply(t) ==
    /\ tpc[t] = "appendCkbTxWitnesses"
    /\ IF example = "distributeRgbppAssetOnBtc"
       THEN /\ tpc' = [tpc EXCEPT ![t] = "appendIssuerCellToBtcBatchTransfer"]
            /\ UNCHANGED sent
       ELSE sendCkbTx(t)
    /\ UNCHANGED <<interval, ready, tres, example, rejected, exceptPoll>>

\* appendCkbTxWitnesses rejects: the error is caught, nothing is sent
appendCkbTxWitnessesFail(t) ==
    /\ tpc[t] = "appendCkbTxWitnesses"
    /\ catch(t)
    /\ UNCHANGED <<interval, ready, sent, tres, example, exceptPoll>>

\* the issuer cell is appended and the transaction is sent
appendIssuerCellToBtcBatchTransferReply(t) ==
    /\ tpc[t] = "appendIssuerCellToBtcBatchTransfer"
    /\ sendCkbTx(t)
    /\ UNCHANGED <<interval, ready, tres, example, rejected, exceptPoll>>

\* appendIssuerCellToBtcBatchTransfer rejects: the error is caught, nothing
\* is sent
appendIssuerCellToBtcBatchTransferFail(t) ==
    /\ tpc[t] = "appendIssuerCellToBtcBatchTransfer"
    /\ catch(t)
    /\ UNCHANGED <<interval, ready, sent, tres, example, exceptPoll>>

\* sendCkbTx returns the tx hash, which is logged, or throws, which is caught
sendCkbTxReply(t, r) ==
    /\ tpc[t] = "sendCkbTx"
    /\ tpc' = [tpc EXCEPT ![t] = "done"]
    /\ tres' = [tres EXCEPT ![t] = r]
    /\ rejected' = (rejected \/ r = "error")
    /\ UNCHANGED <<interval, ready, sent, example, exceptPoll>>

\* --------------------------------------------------------- specifications

\* what the caller excludes: outpoints of listed rows
ExcludeLists == ListsOf({ Outpoint(r) : r \in RemoteRows }, MaxExclude)

\* the answers of the remote asset lookup: no array, an empty one, one binding
AssetReplies ==
    { [isArray |-> FALSE, length |-> 0], [isArray |-> TRUE, length |-> 0],
      [isArray |-> TRUE, length |-> 1] }

NoProps ==
    [address |-> "addr1", targetAmount |-> 0, allowInsufficient |-> FALSE,
     onlyNonRgbppUtxos |-> FALSE, internalCacheKey |-> NoKey, excludeUtxos |-> <<>>]

\* the remote service is not asked for what it holds: every action draws its
\* answer
NoRemote == [rows |-> {}, bound |-> {}]

\* a DataSource as constructed: an empty cache, no call running
InitSource ==
    /\ pc = [p \in Procs |-> "idle"]
    /\ req = [p \in Procs |-> NoProps]
    /\ utxos = [p \in Procs |-> <<>>]
    /\ idx = [p \in Procs |-> 1]
    /\ collected = [p \in Procs |-> <<>>]
    /\ collectedAmount = [p \in Procs |-> 0]
    /\ result = [p \in Procs |-> NoResult]
    /\ cacheUtxos = [k \in Keys |-> CacheNone]
    /\ cacheAssets = [k \in AssetKeys |-> CacheNone]
    /\ started = [k \in ListKeys |-> 0]
    /\ listCalls = [k \in ListKeys |-> 0]
    /\ lookupCalls = [k \in AssetKeys |-> 0]
    /\ boundSeen = {}
    /\ failures = [k \in ListKeys \cup AssetKeys |-> 0]
    /\ thrown = ""
    /\ joined = {}
    /\ opc = "idle"
    /\ oreq = [op |-> "getOutput", hash |-> <<>>, index |-> 0, requireConfirmed |-> FALSE]
    /\ otx = NoTx
    /\ oanswered = FALSE
    /\ ores = NoOutput
    /\ ppc = "idle"
    /\ preply = NoReply
    /\ pres = NoPaymaster
    /\ lpc = "idle"
    /\ lrows = <<>>
    /\ lres = NoList

\* no call running on the BtcAssetsApi
InitCalls ==
    /\ apc = [p \in Procs |-> "idle"]
    /\ areq = [p \in Procs |-> NoRequest]
    /\ afetch = [p \in Procs |-> NoToken]
    /\ aresp = [p \in Procs |-> NoResponse]
    /\ ares = [p \in Procs |-> NoOutcome]
    /\ generated = 0
    /\ forced = 0
    /\ acalls = 0

\* no polling interval set
InitInterval ==
    /\ interval = FALSE
    /\ tpc = [t \in Ticks |-> "idle"]
    /\ ready = FALSE
    /\ sent = 0
    /\ tres = [t \in Ticks |-> NoSend]
    /\ example = NoExample
    /\ rejected = FALSE

Init ==
    /\ remote = NoRemote
    /\ InitSource
    /\ token = "t0" /\ app = FALSE /\ domain = FALSE
    /\ InitCalls
    /\ InitInterval

\* one collectSatoshi call on a fresh DataSource, over every list of rows,
\* target, exclusion list and option
SelectRequests ==
    [address : Addresses, targetAmount : 0..MaxTarget, allowInsufficient : BOOLEAN,
     onlyNonRgbppUtxos : BOOLEAN, internalCacheKey : {NoKey, "k1"},
     excludeUtxos : ExcludeLists]

NextSelect ==
    \/ \E props \in SelectRequests : Calls = 0 /\ collectSatoshi(1, props)
    \/ \E rows \in ListsOf(RemoteRows, MaxUtxos) : getBtcUtxosReply(1, rows)
    \/ \E err \in SelectErrors : getBtcUtxosFail(1, err)
    \/ collectNext(1)
    \/ \E a \in AssetReplies : getRgbppAssetsReply(1, a)
    \/ \E err \in SelectErrors : getRgbppAssetsFail(1, err)
    \/ collectReturn(1)

SpecSelect == Init /\ [][NextSelect]_vars

\* the single lookups of a DataSource: getOutput and getUtxo calls one after
\* the other, getPaymasterOutput calls one after the other
NextOutput ==
    \/ \E r \in OutputRequests : outputCall(r)
    \/ \E tx \in Txs, derives \in BOOLEAN : getBtcTransactionReply(tx, derives)
    \/ \E err \in RemoteErrors : getBtcTransactionFail(err)
    \/ paymasterCall
    \/ \E info \in PaymasterInfos : getRgbppPaymasterInfoReply(info)
    \/ \E err \in ServiceErrors : getRgbppPaymasterInfoFail(err)

SpecOutput == Init /\ [][NextOutput]_vars

\* getUtxos calls, one after the other, over every list of rows
NextList ==
    \/ getUtxosCall
    \/ \E address \in Addresses, rows \in ListsOf(ListedRows, MaxUtxos) :
          getUtxosReply(address, rows)
    \/ \E err \in RemoteErrors : getUtxosFail(err)

SpecList == Init /\ [][NextList]_vars

\* calls running concurrently on one DataSource, over a small remote state
SharedRows == { Row("a", 0, 2, 20), Row("a", 1, 1, 20) }

SharedRequests ==
    [address : Addresses, targetAmount : {2}, allowInsufficient : {TRUE},
     onlyNonRgbppUtxos : BOOLEAN, internalCacheKey : ListKeys, excludeUtxos : {<<>>}]

Next ==
    \E p \in Procs :
        \/ \E props \in SharedRequests : collectSatoshi(p, props)
        \/ \E rows \in ListsOf(SharedRows, 2) : getBtcUtxosReply(p, rows)
        \/ \E err \in RemoteErrors : getBtcUtxosFail(p, err)
        \/ collectNext(p)
        \/ \E a \in AssetReplies : getRgbppAssetsReply(p, a)
        \/ \E err \in RemoteErrors : getRgbppAssetsFail(p, err)
        \/ collectReturn(p)

Spec == Init /\ [][Next]_vars

\* two collectSatoshi calls with the same request against one remote state:
\* the remote lists its rows in any order and answers the asset lookup of an
\* output by whether it binds it
PairRows ==
    { Row("a", 0, 2, 20), Row("a", 1, 1, 20), Row("b", 0, 2, 10), Row("c", 0, 1, 10),
      PendingRow("d", 0, 1) }

Remotes ==
    { [rows |-> R, bound |-> B] :
        R \in { X \in SUBSET PairRows : Cardinality(X) <= MaxListed },
        B \in SUBSET { assetsKey(r) : r \in PairRows } }

PairRequests ==
    [address : Addresses, targetAmount : {2, 4}, allowInsufficient : BOOLEAN,
     onlyNonRgbppUtxos : BOOLEAN, internalCacheKey : {NoKey, "k1"}, excludeUtxos : {<<>>}]

\* the request but for the key its list is cached under
Request(props) == [props EXCEPT !.internalCacheKey = NoKey]

\* the call has been made
Called(p) == pc[p] # "idle" \/ result[p] # NoResult

\* what the remote asset lookup answers for an output
remoteAssets(u) ==
    IF assetsKey(u) \in remote.bound
    THEN [isArray |-> TRUE, length |-> 1] ELSE [isArray |-> TRUE, length |-> 0]

InitPair ==
    /\ remote \in { r \in Remotes : r.bound \subseteq { assetsKey(x) : x \in r.rows } }
    /\ InitSource
    /\ token = "t0" /\ app = FALSE /\ domain = FALSE
    /\ InitCalls
    /\ InitInterval

NextPair ==
    \E p \in Procs :
        \/ \E props \in PairRequests :
              /\ ~Called(p)
              /\ \A q \in Procs : Called(q) => Request(req[q]) = Request(props)
              /\ collectSatoshi(p, props)
        \/ \E rows \in ListsOf(remote.rows, MaxListed) :
              Len(rows) = Cardinality(remote.rows) /\ getBtcUtxosReply(p, rows)
        \/ collectNext(p)
        \/ pc[p] = "getAssets" /\ getRgbppAssetsReply(p, remoteAssets(candidate(p)))
        \/ collectReturn(p)

SpecPair == InitPair /\ [][NextPair]_vars

\* a BtcAssetsApi as constructed, with or without a token, an app, a domain
InitApi ==
    /\ remote = NoRemote
    /\ InitSource
    /\ token \in {NoToken, "t0"} /\ app \in BOOLEAN /\ domain \in BOOLEAN
    /\ InitCalls
    /\ InitInterval

\* request and init calls running concurrently on one BtcAssetsApi
NextApi ==
    \E p \in Procs :
        \/ \E r \in Requests : request(p, r)
        \/ \E r \in Inits : init(p, r)
        \/ \E r \in Generates : generateToken(p, r)
        \/ \E response \in Responses, t \in Tokens : generateTokenReply(p, response, t)
        \/ requestFetch(p)
        \/ \E response \in Responses : fetchReply(p, response)
        \/ fetchFail(p)

SpecApi == InitApi /\ [][NextApi]_vars

\* an example has sent the BTC transaction and set its interval
InitPoll ==
    /\ remote = NoRemote
    /\ InitSource
    /\ token = "t0" /\ app = FALSE /\ domain = FALSE
    /\ InitCalls
    /\ interval = TRUE
    /\ tpc = [t \in Ticks |-> "idle"]
    /\ ready = FALSE
    /\ sent = 0
    /\ tres = [t \in Ticks |-> NoSend]
    /\ example \in Examples
    /\ rejected = FALSE

\* what the service answers to the callback of tick t
answer(t) ==
    \/ \E ok \in BOOLEAN : getRgbppSpvProofReply(t, ok)
    \/ getRgbppSpvProofFail(t)
    \/ appendCkbTxWitnessesReply(t)
    \/ appendCkbTxWitnessesFail(t)
    \/ appendIssuerCellToBtcBatchTransferReply(t)
    \/ appendIssuerCellToBtcBatchTransferFail(t)
    \/ \E r \in SendResults : sendCkbTxReply(t, r)

NextPoll ==
    \/ spvProofReady
    \/ \E t \in Ticks : tick(t)
    \/ \E t \in Ticks : answer(t)

SpecPoll == InitPoll /\ [][NextPoll]_vars

\* the timer fires while the interval is set, and every awaited call settles,
\* resolved or rejected
SpecPollFair ==
    /\ SpecPoll
    /\ WF_vars(\E t \in Ticks : tick(t))
    /\ \A t \in Ticks : WF_vars(answer(t))

\* ------------------------------------------------------------ properties

RECURSIVE SumValues(_)
SumValues(list) == IF list = <<>> THEN 0 ELSE Head(list).value + SumValues(Tail(list))

Prefix(list, n) == SubSeq(list, 1, n)

\* the candidates left by the filter: not excluded and, under asset exclusion,
\* not reported by the remote lookup to hold assets
Filtered(list, props) ==
    LET keep(u) ==
            /\ \A i \in 1..Len(props.excludeUtxos) :
                  Outpoint(u) # props.excludeUtxos[i]
            /\ props.onlyNonRgbppUtxos => assetsKey(u) \notin boundSeen
    IN  SelectSeq(list, keep)

\* the lengths of the prefixes of list that reach the target
Reaching(list, targetAmount) ==
    { n \in 0..Len(list) : SumValues(Prefix(list, n)) >= targetAmount }

\* the shortest prefix reaching the target, or the whole list when none does
ShortestPrefix(list, targetAmount) ==
    LET R == Reaching(list, targetAmount)
    IN  IF R = {} THEN list
        ELSE Prefix(list, CHOOSE n \in R : \A m \in R : n <= m)

\* call p returns or throws in this step, its loop having ended
Returns(p) == pc[p] = "loop" /\ pc'[p] = "idle"

\* C1: a returned selection is the shortest prefix of the sorted, filtered
\* candidate list whose cumulative value reaches the target, or the whole
\* filtered list when its total is below the target, which is then returned
\* only if allowInsufficient is set.
C1_ShortestPrefix ==
    [][\A p \in Procs :
          (Returns(p) /\ result'[p].kind = "ok") =>
             LET F == Filtered(utxos[p], req[p])
             IN  /\ result'[p].utxos = ShortestPrefix(F, req[p].targetAmount)
                 /\ Reaching(F, req[p].targetAmount) = {} => req[p].allowInsufficient]_vars

\* C1 witness: a selection that stopped inside the filtered list, past a
\* candidate the filter dropped
C1_Witness ==
    \E p \in Procs :
        /\ result[p].kind = "ok"
        /\ Len(result[p].utxos) = 2
        /\ result[p].satoshi >= req[p].targetAmount
        /\ req[p].excludeUtxos # <<>>
        /\ req[p].onlyNonRgbppUtxos
        /\ boundSeen # {}

\* C2: no returned UTXO has the txid and vout of an entry of excludeUtxos.
C2_NoExcluded ==
    \A p \in Procs :
        result[p].kind = "ok" =>
            \A i \in 1..Len(result[p].utxos), j \in 1..Len(req[p].excludeUtxos) :
                ~(/\ result[p].utxos[i].txid = req[p].excludeUtxos[j].txid
                  /\ result[p].utxos[i].vout = req[p].excludeUtxos[j].vout)

\* C2 witness: a call that excluded a:0 returned the candidates sorted around it
C2_Witness ==
    \E p \in Procs :
        /\ result[p].kind = "ok"
        /\ req[p].excludeUtxos = <<[txid |-> "a", vout |-> 0]>>
        /\ Len(result[p].utxos) = 2
        /\ result[p].utxos[1].txid = "b"
        /\ result[p].utxos[2].txid = "a"

\* C4: the call throws INSUFFICIENT_UTXO, with the target and the accumulated
\* amount, exactly when the accumulated amount is below the target and
\* allowInsufficient is unset; otherwise it returns what it accumulated.
C4_Insufficient ==
    [][\A p \in Procs :
          Returns(p) =>
             IF collectedAmount[p] < req[p].targetAmount /\ ~req[p].allowInsufficient
             THEN result'[p] =
                     Thrown("INSUFFICIENT_UTXO", req[p].targetAmount, collectedAmount[p])
             ELSE /\ result'[p].kind = "ok"
                  /\ result'[p].utxos = collected[p]
                  /\ result'[p].satoshi = collectedAmount[p]]_vars

\* C4 witness: insufficiency allowed and nothing accumulated, so an empty
\* selection below the target is returned
C4_Witness ==
    \E p \in Procs :
        /\ result[p].kind = "ok"
        /\ req[p].allowInsufficient
        /\ result[p].utxos = <<>>
        /\ result[p].satoshi < req[p].targetAmount

\* C4 witness of the boundaries: one call met its target exactly
C4_WitnessExact ==
    \E p \in Procs :
        /\ result[p].kind = "ok"
        /\ ~req[p].allowInsufficient
        /\ result[p].satoshi = req[p].targetAmount
        /\ req[p].targetAmount > 0

\* C5: a returned satoshi is the sum of the returned values, exceedSatoshi is
\* satoshi - targetAmount, and it is negative only under allowInsufficient.
C5_Totals ==
    \A p \in Procs :
        result[p].kind = "ok" =>
            /\ result[p].satoshi = SumValues(result[p].utxos)
            /\ result[p].exceedSatoshi = result[p].satoshi - req[p].targetAmount
            /\ result[p].exceedSatoshi < 0 => req[p].allowInsufficient

\* C5 witness: a selection returned with a negative surplus
C5_Witness ==
    \E p \in Procs :
        /\ result[p].kind = "ok"
        /\ Len(result[p].utxos) >= 2
        /\ result[p].exceedSatoshi < 0

\* a call that holds its candidate list
HasList(p) == pc[p] \in {"loop", "getAssets", "joinAssets"}

\* C3: under asset exclusion no returned UTXO is one for which the remote
\* asset lookup has answered with a non-empty list, in any sequence of calls,
\* whether the flag came from the remote or from the cache.
C3_NoAssetBound ==
    \A p \in Procs :
        (result[p].kind = "ok" /\ req[p].onlyNonRgbppUtxos) =>
            \A i \in 1..Len(result[p].utxos) :
                assetsKey(result[p].utxos[i]) \notin boundSeen

\* C3 witness: two calls under asset exclusion skipped a:0 and returned a:1,
\* the remote having been asked once about each
C3_Witness ==
    /\ \A p \in Procs :
          /\ result[p].kind = "ok"
          /\ req[p].onlyNonRgbppUtxos
          /\ Len(result[p].utxos) = 1
          /\ result[p].utxos[1].vout = 1
    /\ "a:0" \in boundSeen
    /\ lookupCalls["a:0"] = 1
    /\ lookupCalls["a:1"] = 1
    /\ joined = {}

\* remote UTXO listings issued so far
ListCallsTotal == listCalls[NoKey] + listCalls["k1"] + listCalls["k2"]

\* no remote listing has failed
ListingSucceeds == \A k \in ListKeys : failures[k] = 0

\* C6: while the remote listing succeeds, the remote listings issued number
\* the calls made without a key plus the distinct keys used.
C6_ListingCount ==
    ListingSucceeds =>
        ListCallsTotal = started[NoKey] + Cardinality({ k \in Keys : started[k] > 0 })

\* C6 witness: three completed calls, none overlapping another's listing, two
\* of them under the same key, made two remote listings
C6_Witness ==
    /\ \A p \in Procs : pc[p] = "idle" /\ result[p].kind = "ok"
    /\ started[NoKey] = 1
    /\ started["k1"] = 2
    /\ ListCallsTotal = 2
    /\ ListingSucceeds
    /\ joined = {}

\* C7: calls under one key that overlap share a single remote listing: at most
\* one is in flight for the key, a call awaiting the list awaits that one, one
\* listing is issued per key unless it fails, and the calls under the key go
\* on with the same list.
C7_SingleFlight ==
    /\ \A k \in Keys :
          /\ Cardinality({ q \in Procs : pc[q] = "getUtxos" /\ req[q].internalCacheKey = k }) <= 1
          /\ failures[k] = 0 => listCalls[k] <= 1
    /\ \A p \in Procs :
          pc[p] = "joinUtxos" =>
              \E q \in Procs : pc[q] = "getUtxos" /\ req[q].internalCacheKey = req[p].internalCacheKey
    /\ \A p, q \in Procs :
          (/\ HasList(p) /\ HasList(q)
           /\ req[p].internalCacheKey = req[q].internalCacheKey
           /\ req[p].internalCacheKey # NoKey) => utxos[p] = utxos[q]

\* C7 witness: a call that awaited another call's listing iterates the same
\* two candidates, one remote listing having been made for two calls
C7_Witness ==
    \E p, q \in Procs :
        /\ p # q
        /\ p \in joined /\ q \notin joined
        /\ pc[p] = "loop" /\ idx[p] = 1
        /\ pc[q] = "loop"
        /\ req[p].internalCacheKey = "k1" /\ req[q].internalCacheKey = "k1"
        /\ Len(utxos[p]) = 2 /\ utxos[p] = utxos[q]
        /\ started["k1"] = 2 /\ listCalls["k1"] = 1

\* a remote call for key k fails in this step
RemoteFails(k) == failures'[k] = failures[k] + 1

\* C8: a failed producer is not memoized: when the remote listing or lookup
\* fails the cache holds no entry for its key, and a later call that finds no
\* entry for a key that failed asks the remote again.
C8_FailureNotCached ==
    [][\A p \in Procs :
          /\ \A k \in Keys :
                /\ (pc[p] = "getUtxos" /\ req[p].internalCacheKey = k /\ RemoteFails(k)) =>
                       cacheUtxos'[k].state = "none"
                /\ (/\ pc[p] = "idle" /\ pc'[p] # "idle"
                    /\ req'[p].internalCacheKey = k
                    /\ failures[k] > 0 /\ cacheUtxos[k].state = "none") =>
                       (pc'[p] = "getUtxos" /\ listCalls'[k] = listCalls[k] + 1)
          /\ \A k \in AssetKeys :
                /\ (pc[p] = "getAssets" /\ assetsKey(candidate(p)) = k /\ RemoteFails(k)) =>
                       cacheAssets'[k].state = "none"
                /\ (/\ pc[p] = "loop" /\ pc'[p] \in {"getAssets", "joinAssets"}
                    /\ assetsKey(candidate(p)) = k
                    /\ failures[k] > 0 /\ cacheAssets[k].state = "none") =>
                       (pc'[p] = "getAssets" /\ lookupCalls'[k] = lookupCalls[k] + 1)]_vars

\* C8 witness: a key whose listing failed once holds the list of a second
\* remote listing
C8_Witness ==
    /\ failures["k1"] = 1
    /\ listCalls["k1"] = 2
    /\ cacheUtxos["k1"].state = "resolved"
    /\ cacheUtxos["k1"].value # <<>>

\* the output lookup has ended on an answer of the remote service
Answered(op) == opc = "idle" /\ oanswered /\ oreq.op = op

\* the transaction answered holds the requested output
HasVout == otx.found /\ oreq.index + 1 \in DOMAIN otx.vout

\* the script of the requested output starts with the byte 6a
DataCarrier ==
    LET hex == otx.vout[oreq.index + 1].scriptpubkey
    IN  Len(hex) >= 2 /\ hex[1] = 6 /\ hex[2] = 10

\* confirmation is required of an unconfirmed transaction
Unconfirmed == oreq.requireConfirmed /\ ~otx.confirmed

\* what getUtxo returns is an output with an address, of no data-carrier script
ReturnsSpendable ==
    (Answered("getUtxo") /\ ores.kind = "output") =>
        /\ ores.hasAddress /\ ores.address # NoAddress
        /\ HasVout /\ ~DataCarrier

\* what getUtxo returns is an output of no data-carrier script that has the
\* address property, set to the address the remote service reported, if any
ReturnsWithAddressProperty ==
    (Answered("getUtxo") /\ ores.kind = "output") =>
        /\ HasVout /\ ~DataCarrier
        /\ ores.hasAddress
        /\ ores.address = otx.vout[oreq.index + 1].scriptpubkey_address

\* C9 as stated: getUtxo returns no data-carrier output and only outputs that
\* carry an address; on a data-carrier output getUtxo throws UNSPENDABLE_OUTPUT
\* and getOutput returns an Output without address, whatever requireConfirmed
\* is.
C9_Original ==
    /\ ReturnsSpendable
    /\ (Answered("getUtxo") /\ HasVout /\ DataCarrier) =>
           ores = OutputError("UNSPENDABLE_OUTPUT")
    /\ (Answered("getOutput") /\ HasVout /\ DataCarrier) =>
           (ores.kind = "output" /\ ~ores.hasAddress)

\* the requested output is no data carrier and the remote service reported no
\* address for it
NoAddressReported ==
    HasVout /\ ~DataCarrier /\ otx.vout[oreq.index + 1].scriptpubkey_address = NoAddress

\* C9: getUtxo returns no data-carrier output and only outputs with the
\* address property, which holds the address the remote service reported.
\* When it reported none for an output that is no data carrier, getUtxo and
\* getOutput alike throw what the derivation of the address type throws, or
\* return the output with an undefined address when it throws nothing.  On a
\* data-carrier output getUtxo throws UNSPENDABLE_OUTPUT and getOutput returns
\* an Output without address.  All of it unless confirmation is required of
\* an unconfirmed transaction: then both throw UNCONFIRMED_UTXO.
C9_Unspendable ==
    /\ ReturnsWithAddressProperty
    /\ \A op \in {"getUtxo", "getOutput"} :
          (Answered(op) /\ NoAddressReported) =>
              IF Unconfirmed THEN ores = OutputError("UNCONFIRMED_UTXO")
              ELSE \/ ores = AddressTypeError
                   \/ /\ ores.kind = "output" /\ ores.hasAddress
                      /\ ores.address = NoAddress /\ ores.vout = oreq.index
    /\ (Answered("getUtxo") /\ HasVout /\ DataCarrier) =>
           ores = OutputError(IF Unconfirmed THEN "UNCONFIRMED_UTXO" ELSE "UNSPENDABLE_OUTPUT")
    /\ (Answered("getOutput") /\ HasVout /\ DataCarrier) =>
           IF Unconfirmed THEN ores = OutputError("UNCONFIRMED_UTXO")
           ELSE ores.kind = "output" /\ ~ores.hasAddress /\ ores.vout = oreq.index

\* C9 witness: getUtxo threw UNSPENDABLE_OUTPUT on the data-carrier output of
\* an unconfirmed transaction, confirmation not being required
C9_Witness ==
    /\ Answered("getUtxo") /\ HasVout /\ DataCarrier
    /\ ~otx.confirmed /\ ~oreq.requireConfirmed
    /\ oreq.index = 1
    /\ ores.code = "UNSPENDABLE_OUTPUT"

\* C9 witness: getUtxo returned the bare-script output, for which the remote
\* service reported no address, with an undefined address
C9_WitnessNoAddress ==
    /\ Answered("getUtxo") /\ HasVout /\ ~DataCarrier
    /\ otx.vout[oreq.index + 1].scriptpubkey_address = NoAddress
    /\ ores.kind = "output" /\ ores.hasAddress /\ ores.address = NoAddress

\* C9 witness: getUtxo threw the error of getAddressType on the bare-script
\* output, for which the remote service reported no address
C9_WitnessThrown ==
    /\ Answered("getUtxo") /\ NoAddressReported /\ ~Unconfirmed
    /\ ores = AddressTypeError

\* C10 as stated: getOutput returns undefined when the transaction is missing
\* or lacks the index, whatever requireConfirmed and the confirmation are.
C10_Original ==
    (Answered("getOutput") /\ ~HasVout) => ores = Undefined

\* C10: getOutput returns undefined when the transaction is missing, and when
\* it lacks the index unless confirmation is required of an unconfirmed
\* transaction: then it throws UNCONFIRMED_UTXO.
C10_NotFound ==
    (Answered("getOutput") /\ ~HasVout) =>
        IF otx.found /\ Unconfirmed THEN ores = OutputError("UNCONFIRMED_UTXO")
        ELSE ores = Undefined

\* C10 witness: undefined for index 2 of a confirmed transaction of two
\* outputs, confirmation being required
C10_Witness ==
    /\ Answered("getOutput")
    /\ otx.found /\ otx.confirmed /\ oreq.requireConfirmed
    /\ Len(otx.vout) = 2 /\ oreq.index = 2
    /\ ores = Undefined

\* the output lookup has ended, on an answer or on a failure of the remote
\* service
Ended(op) == opc = "idle" /\ ores.kind # "none" /\ oreq.op = op

\* C11: getOutput and getUtxo throw UNCONFIRMED_UTXO when confirmation is
\* required and the transaction the remote answered with is unconfirmed,
\* whatever its outputs are; they never throw it when confirmation is not
\* required, when the transaction is confirmed, when the remote knows no such
\* transaction, or when the remote call failed.
C11_Unconfirmed ==
    \A op \in {"getOutput", "getUtxo"} :
        Ended(op) =>
            ((ores = OutputError("UNCONFIRMED_UTXO")) <=>
                (oanswered /\ otx.found /\ Unconfirmed))

\* C11 witness: getUtxo threw UNCONFIRMED_UTXO on an unconfirmed transaction
\* that lacks the requested index
C11_Witness ==
    /\ Answered("getUtxo")
    /\ otx.found /\ ~otx.confirmed /\ oreq.requireConfirmed
    /\ ~HasVout
    /\ ores = OutputError("UNCONFIRMED_UTXO")

\* C11 witness: getOutput returned the output of an unconfirmed transaction,
\* confirmation not being required
C11_WitnessUnset ==
    /\ Answered("getOutput")
    /\ otx.found /\ ~otx.confirmed /\ ~oreq.requireConfirmed
    /\ ores.kind = "output"

\* the paymaster lookup has ended
PaymasterEnded == ppc = "idle" /\ pres.kind # "none"

\* the remote call failed with the service's resource-not-found error
PaymasterNotFound ==
    /\ ~preply.ok
    /\ preply.err = [class |-> "BtcAssetsApiError", code |-> "ASSETS_API_RESOURCE_NOT_FOUND"]

\* C12: getPaymasterOutput returns undefined exactly when the remote call
\* failed with the service's resource-not-found error; on every other failure
\* it throws the error the remote call threw; on a reply it returns the
\* reply's btc_address as address and its fee as value.
C12_Paymaster ==
    PaymasterEnded =>
        /\ (pres.kind = "undefined") <=> PaymasterNotFound
        /\ (~preply.ok /\ ~PaymasterNotFound) =>
               (pres.kind = "error" /\ pres.err = preply.err)
        /\ preply.ok =>
               /\ pres.kind = "output"
               /\ pres.address = preply.value.btc_address
               /\ pres.value = preply.value.fee

\* C12 witness: an error of the service's class with another code was rethrown
C12_Witness ==
    /\ PaymasterEnded
    /\ preply.err = [class |-> "BtcAssetsApiError", code |-> "ASSETS_API_RESPONSE_ERROR"]
    /\ pres.kind = "error"

\* C12 witness: undefined on the resource-not-found error
C12_WitnessNotFound == PaymasterEnded /\ PaymasterNotFound /\ pres.kind = "undefined"

\* getUtxos has returned a list
Listed == lpc = "idle" /\ lres.kind = "list"

\* where the remote service listed the row a returned UTXO was made of
rowIndex(u) == CHOOSE i \in 1..Len(lrows) : Outpoint(lrows[i]) = Outpoint(u)

\* every row the remote service listed carries a block height
AllHeights == \A i \in 1..Len(lrows) : lrows[i].status.block_height # NoHeight

\* the returned list holds each listed row once, mapped to a Utxo
IsPermutation ==
    /\ Len(lres.utxos) = Len(lrows)
    /\ \A i \in 1..Len(lrows) :
          \E j \in 1..Len(lres.utxos) :
              lres.utxos[j] = rowToUtxo(lres.utxos[j].address, lrows[i])

\* the returned UTXOs i < j are in the order of (block height, vout), and in
\* the order of the remote list when they tie on both
InOrder(i, j) ==
    LET a == lrows[rowIndex(lres.utxos[i])]
        b == lrows[rowIndex(lres.utxos[j])]
    IN  /\ a.status.block_height <= b.status.block_height
        /\ a.status.block_height = b.status.block_height => a.vout <= b.vout
        /\ (a.status.block_height = b.status.block_height /\ a.vout = b.vout) =>
               rowIndex(lres.utxos[i]) < rowIndex(lres.utxos[j])

\* the returned UTXOs i and j were both listed with a block height
BothHeights(i, j) ==
    /\ lrows[rowIndex(lres.utxos[i])].status.block_height # NoHeight
    /\ lrows[rowIndex(lres.utxos[j])].status.block_height # NoHeight

\* C13 as stated: getUtxos returns a permutation of the remote rows in which
\* any two rows that have a block height are in ascending order of (block
\* height, vout), rows equal on both in the order the remote listed them,
\* whatever the other rows of the list are.
C13_Original ==
    Listed =>
        /\ IsPermutation
        /\ \A i, j \in 1..Len(lres.utxos) : (i < j /\ BothHeights(i, j)) => InOrder(i, j)

\* C13: getUtxos returns a permutation of the remote rows; when every row
\* carries a block height it is in ascending order of (block height, vout):
\* the lower block height first, at equal block height the smaller vout
\* first, and rows equal on both in the order the remote service listed them.
C13_Sorted ==
    Listed =>
        /\ IsPermutation
        /\ AllHeights => \A i, j \in 1..Len(lres.utxos) : i < j => InOrder(i, j)

\* C13 witness: three rows listed in descending order of (block height, vout),
\* the last two tying on both keys, come back with the tying rows first, in
\* the order they were listed
C13_Witness ==
    /\ Listed
    /\ lrows = <<Row("a", 1, 1, 20), Row("c", 0, 1, 10), Row("b", 0, 2, 10)>>
    /\ lres.utxos[1].txid = "c" /\ lres.utxos[2].txid = "b" /\ lres.utxos[3].txid = "a"

\* a row without block height between a row of height 20 and a row of
\* height 10: the list comes back as the remote listed it, height 20 first
C13_WitnessUnsorted ==
    /\ Listed
    /\ lrows = <<Row("a", 0, 2, 20), PendingRow("d", 0, 1), Row("b", 0, 2, 10)>>
    /\ lres.utxos[1].txid = "a" /\ lres.utxos[2].txid = "d" /\ lres.utxos[3].txid = "b"

\* the calls a step ends
Ending == { q \in Procs : pc[q] # "idle" /\ pc'[q] = "idle" }

\* C14: when the remote listing or a remote asset lookup of collectSatoshi
\* fails, the call that issued it ends in that step throwing the error the
\* remote threw, with no selection returned, whatever it had collected so
\* far, and the step issues no remote call; every call the step ends throws
\* that error.
C14_RemoteFailure ==
    [][\A k \in ListKeys \cup AssetKeys :
          RemoteFails(k) =>
              /\ \E p \in Procs : pc[p] \in {"getUtxos", "getAssets"} /\ p \in Ending
              /\ \A q \in Ending :
                    /\ result'[q] = Thrown(thrown', 0, 0)
                    /\ result'[q].utxos = <<>>
                    /\ collected'[q] = <<>>
              /\ \A q \in Procs \ Ending : pc'[q] = pc[q]
              /\ listCalls' = listCalls
              /\ lookupCalls' = lookupCalls]_vars

\* C14 witness: the lookup of the second candidate failed after the first was
\* accepted: the call threw the remote error
C14_Witness ==
    /\ pc[1] = "idle"
    /\ result[1] = Thrown("ASSETS_API_UNAUTHORIZED", 0, 0)
    /\ thrown = "ASSETS_API_UNAUTHORIZED"
    /\ boundSeen = {}
    /\ lookupCalls["a:0"] = 1 /\ failures["a:0"] = 0
    /\ lookupCalls["a:1"] = 1 /\ failures["a:1"] = 1

\* a remote asset lookup for the output k is in flight
LookupPending(k) ==
    \E p \in Procs :
        pc[p] = "getAssets" /\ idx[p] <= Len(utxos[p]) /\ assetsKey(candidate(p)) = k

\* the remote asset lookup for the output k has succeeded
LookupSucceeded(k) ==
    lookupCalls[k] > failures[k] + (IF LookupPending(k) THEN 1 ELSE 0)

\* the call p examines, under asset exclusion, a candidate whose flag is cached
Reuses(p) ==
    /\ pc[p] = "loop" /\ idx[p] <= Len(utxos[p]) /\ idx'[p] = idx[p] + 1
    /\ req[p].onlyNonRgbppUtxos
    /\ ~isExcluded(req[p].excludeUtxos, candidate(p))
    /\ cacheAssets[assetsKey(candidate(p))].state = "resolved"

\* C15: over the collectSatoshi calls on one DataSource, once the remote asset
\* lookup for a (txid, vout) has succeeded it is not issued again, and no more
\* lookups are ever issued for it than have failed plus one; a later
\* evaluation of that candidate skips or accepts it by the value cached under
\* "txid:vout".
C15_LookupOnce ==
    /\ [][\A k \in AssetKeys :
            /\ LookupSucceeded(k) => lookupCalls'[k] = lookupCalls[k]
            /\ lookupCalls'[k] <= failures'[k] + 1]_vars
    /\ [][\A p \in Procs :
            Reuses(p) =>
                /\ lookupCalls' = lookupCalls
                /\ pc'[p] = "loop"
                /\ collected'[p] =
                      IF cacheAssets[assetsKey(candidate(p))].value THEN collected[p]
                      ELSE Append(collected[p], candidate(p))]_vars

\* C15 witness: two calls under asset exclusion, neither awaiting the other,
\* have both returned the output a:0, looked up remotely once
C15_Witness ==
    /\ joined = {}
    /\ \A p \in Procs :
          /\ pc[p] = "idle" /\ req[p].onlyNonRgbppUtxos
          /\ result[p].kind = "ok" /\ Len(result[p].utxos) = 1
          /\ assetsKey(result[p].utxos[1]) = "a:0"
    /\ lookupCalls["a:0"] = 1 /\ failures["a:0"] = 0

\* the rows the remote service holds carry block heights and differ on
\* (block height, vout)
DistinctKeys ==
    \A a, b \in remote.rows :
        /\ a.status.block_height # NoHeight
        /\ a # b => <<a.status.block_height, a.vout>> # <<b.status.block_height, b.vout>>

\* the rows the remote service holds differ on (block height, vout), a
\* missing block height being a block height like another
DistinctPairs ==
    \A a, b \in remote.rows :
        a # b => <<a.status.block_height, a.vout>> # <<b.status.block_height, b.vout>>

BothReturned == \A p \in Procs : pc[p] = "idle" /\ result[p] # NoResult

\* C16 as stated: two collectSatoshi calls with the same request, against a
\* remote service that holds the same rows, distinct on (block height, vout),
\* and binds the same outputs, end alike, whatever the order the remote
\* listed its rows in for either call.
C16_Original ==
    (BothReturned /\ DistinctPairs) => result[1] = result[2]

\* C16: two collectSatoshi calls with the same request, against a remote
\* service that holds the same rows, with block heights and distinct on
\* (block height, vout), and binds the same outputs, end alike: the same
\* UTXOs in the same order with the same totals, or the same error;
\* whatever the order the remote listed its rows in for either call, and
\* whether a call took the list and the asset flags from the cache, from
\* another call's pending lookup, or from the remote service.
C16_Deterministic ==
    (BothReturned /\ DistinctKeys) => result[1] = result[2]

\* C16 witness: both calls returned a:1 and a:0 under asset exclusion; the
\* second took the asset flags from the cache, having listed the rows itself
C16_Witness ==
    /\ BothReturned /\ DistinctKeys
    /\ req[1].onlyNonRgbppUtxos /\ req[1].internalCacheKey = NoKey
    /\ req[2].internalCacheKey = NoKey
    /\ listCalls[NoKey] = 2
    /\ joined = {}
    /\ result[1].kind = "ok" /\ Len(result[1].utxos) = 2
    /\ lookupCalls["a:0"] = 1 /\ lookupCalls["a:1"] = 1

\* the row a returned UTXO was made of
rowOf(u) == lrows[rowIndex(u)]

\* in the returned list every unconfirmed UTXO of R precedes every confirmed one
UnconfirmedFirst(R) ==
    \A i, j \in 1..Len(lres.utxos) :
        (/\ rowOf(lres.utxos[i]) \in R
         /\ ~rowOf(lres.utxos[i]).status.confirmed
         /\ rowOf(lres.utxos[j]).status.confirmed) => i < j

\* of every two rows of the remote list exactly one carries a block height:
\* the comparator returns NaN for every pair
Incomparable ==
    \A i, j \in 1..Len(lrows) :
        i < j => (lrows[i].status.block_height = NoHeight)
                    # (lrows[j].status.block_height = NoHeight)

\* the returned list is in the order of the remote list
RemoteOrder == \A i \in 1..Len(lres.utxos) : rowIndex(lres.utxos[i]) = i

\* C17 as stated: getUtxos returns every unconfirmed UTXO, whether reported
\* with block height 0 or with none, before every confirmed one.
C17_Original ==
    Listed => UnconfirmedFirst(ListedRows)

\* C17: when every row the remote lists carries a block height, getUtxos
\* returns an unconfirmed UTXO, reported with block height 0, before every
\* confirmed one, so collectSatoshi, which takes the candidates in that
\* order, accepts it first.  An unconfirmed UTXO reported without a block
\* height compares as a tie with every row that has one: a remote list of
\* such a row and a row with a block height comes back in the order the
\* remote listed it, the confirmed row ahead when the remote listed it ahead.
C17_UnconfirmedOrder ==
    Listed =>
        /\ AllHeights => UnconfirmedFirst(ListedRows)
        /\ Incomparable => RemoteOrder

\* C17 witness: a confirmed row listed ahead of an unconfirmed row without
\* block height stays ahead of it
C17_Witness ==
    /\ Listed
    /\ lrows = <<Row("a", 0, 2, 20), PendingRow("d", 0, 1)>>
    /\ lres.utxos[1].txid = "a" /\ lres.utxos[2].txid = "d"

\* C17 witness: an unconfirmed row of block height 0 listed behind a confirmed
\* row is returned ahead of it
C17_WitnessZero ==
    /\ Listed
    /\ lrows = <<Row("a", 0, 2, 20), Row("b", 1, 0, 0)>>
    /\ lres.utxos[1].txid = "b" /\ lres.utxos[2].txid = "a"

\* the remote holds a:0 at height 20 and d:0 without block height, and listed
\* them in one order for one call and in the other for the other call: for
\* the target 2 one call returned a:0 alone, the other d:0 and a:0
C16_WitnessOrder ==
    /\ BothReturned /\ DistinctPairs
    /\ remote.rows = {Row("a", 0, 2, 20), PendingRow("d", 0, 1)}
    /\ \E p, q \in Procs :
          /\ result[p].kind = "ok" /\ Len(result[p].utxos) = 1
          /\ result[q].kind = "ok" /\ Len(result[q].utxos) = 2

\* the outpoint of the candidate is on the exclusion list of the call
OnExcludeList(p, u) ==
    \E i \in 1..Len(req[p].excludeUtxos) : req[p].excludeUtxos[i] = Outpoint(u)

\* C18: within a collectSatoshi call a remote asset lookup is issued only
\* under asset exclusion, for the candidate the loop is examining, when that
\* candidate is not on the exclusion list and the value accumulated so far is
\* below the target: so none for an excluded candidate, none once the target
\* is reached, none with asset exclusion off or a target of 0 or less.
C18_LookupGuard ==
    [][\A k \in AssetKeys :
          lookupCalls'[k] # lookupCalls[k] =>
              /\ lookupCalls'[k] = lookupCalls[k] + 1
              /\ \E p \in Procs :
                    /\ pc[p] = "loop" /\ pc'[p] = "getAssets"
                    /\ idx[p] <= Len(utxos[p])
                    /\ k = assetsKey(utxos[p][idx[p]])
                    /\ req[p].onlyNonRgbppUtxos
                    /\ req[p].targetAmount > 0
                    /\ collectedAmount[p] < req[p].targetAmount
                    /\ collectedAmount[p] = SumValues(collected[p])
                    /\ ~OnExcludeList(p, utxos[p][idx[p]])]_vars

\* C18 witness: the first candidate is on the exclusion list and was skipped
\* without a lookup; the lookup of the second is in flight
C18_Witness ==
    /\ pc[1] = "getAssets" /\ idx[1] = 2
    /\ req[1].excludeUtxos = <<Outpoint(utxos[1][1])>>
    /\ lookupCalls[assetsKey(utxos[1][1])] = 0
    /\ lookupCalls[assetsKey(utxos[1][2])] = 1

\* C18 witness: a call whose target was reached by the first candidate has
\* returned, the second never looked up
C18_WitnessReached ==
    /\ pc[1] = "idle" /\ req[1].onlyNonRgbppUtxos
    /\ result[1].kind = "ok" /\ Len(result[1].utxos) = 1
    /\ result[1].satoshi = req[1].targetAmount
    /\ lookupCalls["a:0"] = 1 /\ \A k \in AssetKeys \ {"a:0"} : lookupCalls[k] = 0
    /\ listCalls[NoKey] = 1

\* the call has been made
ApiCalled(p) == apc[p] # "idle" \/ ares[p] # NoOutcome

\* a request to a route that requires a token is fetched with an Authorization
\* token, and throws ASSETS_API_INVALID_PARAM, without a fetch, on an instance
\* that has no token and not both app and domain
Authorized ==
    \A p \in Procs :
        (ApiCalled(p) /\ areq[p].op = "request" /\ areq[p].requireToken) =>
            /\ apc[p] = "fetch" => afetch[p] # NoToken
            /\ (token = NoToken /\ ~(app /\ domain)) =>
                   (apc[p] = "idle" /\ ares[p] = ApiError("ASSETS_API_INVALID_PARAM"))

\* C19 as stated: a request to a token-requiring route is never fetched
\* without an Authorization token, failing with ASSETS_API_INVALID_PARAM when
\* the instance has neither a token nor both app and domain; and unless
\* init(true) is called the service generates at most one token for the
\* instance, also when requests are started concurrently without a token.
C19_Original ==
    /\ Authorized
    /\ forced = 0 => generated <= 1

\* the parts of C19 that hold: a request to a token-requiring route throws
\* ASSETS_API_INVALID_PARAM, without a fetch, on an instance that has no token
\* and not both app and domain
C19_InvalidParam ==
    \A p \in Procs :
        (ApiCalled(p) /\ areq[p].op = "request" /\ areq[p].requireToken
            /\ token = NoToken /\ ~(app /\ domain)) =>
                (apc[p] = "idle" /\ ares[p] = ApiError("ASSETS_API_INVALID_PARAM"))

\* and its route is fetched with the token the instance has at the fetch,
\* without one only after an init() that stored none
C19_Authorized ==
    [][\A p \in Procs :
          (areq'[p].op = "request" /\ areq'[p].requireToken
              /\ apc[p] # "fetch" /\ apc'[p] = "fetch") =>
                  /\ afetch'[p] = token
                  /\ afetch'[p] = NoToken => apc[p] = "init"]_vars

\* the service accepted the generation with no token in its answer: the
\* route that requires a token is fetched without Authorization
C19_Unauthorized ==
    \E p \in Procs :
        /\ areq[p].op = "request" /\ areq[p].requireToken
        /\ apc[p] = "fetch" /\ afetch[p] = NoToken
        /\ generated >= 1

\* two requests started before either had its token: two tokens generated,
\* and both routes fetched with the token stored last
C19_TwoTokens ==
    /\ forced = 0 /\ generated = 2 /\ acalls = 2
    /\ token # NoToken
    /\ \A p \in Procs : areq[p].op = "request" /\ apc[p] = "fetch" /\ afetch[p] = token

\* the same two requests, the first resumed before the second token was
\* stored: the routes are fetched with different tokens
C19_TokensDiffer ==
    /\ forced = 0 /\ generated = 2 /\ acalls = 2
    /\ \A p \in Procs : areq[p].op = "request" /\ apc[p] = "fetch"
    /\ afetch[1] # afetch[2]

\* generateToken() called on the instance does not store the token it
\* returns: the request that follows generates another
C19_TokenNotStored ==
    /\ forced = 0 /\ generated = 2 /\ acalls = 2
    /\ areq[1].op = "generateToken" /\ ares[1] = Returned
    /\ areq[2].op = "request" /\ apc[2] = "fetch" /\ afetch[2] = token

\* the fetch of the route of call p has been answered
Fetched(p) == apc[p] = "idle" /\ aresp[p] # NoResponse

\* the ok flag of a response: the ok property of the body when it is there
\* (neither absent nor null), the ok flag of the HTTP response otherwise
OkFlag(response) ==
    IF response.body.ok \in {"true", "false"} THEN response.body.ok = "true"
    ELSE response.status \in 200..299

\* the error request throws by the status alone
StatusError(response) ==
    ApiError(CASE response.status = 200 -> "ASSETS_API_RESPONSE_DECODE_ERROR"
               [] response.status = 401 -> "ASSETS_API_UNAUTHORIZED"
               [] OTHER -> "ASSETS_API_RESPONSE_ERROR")

\* the outcome of a response classified by whether a body is there to read
Classified(response, readable) ==
    IF ~readable THEN StatusError(response)
    ELSE IF ~OkFlag(response) THEN ApiError("ASSETS_API_RESPONSE_ERROR")
    ELSE Returned

\* C20 as stated: request returns exactly when the body parsed as JSON and the
\* ok flag is true, throws by the status when the body did not parse, and
\* throws ASSETS_API_RESPONSE_ERROR when it parsed and the ok flag is false.
C20_Original ==
    \A p \in Procs :
        Fetched(p) => ares[p] = Classified(aresp[p], aresp[p].body.parses)

\* C20: the outcome of request is one of three, fixed by the response: it
\* returns exactly when the body parsed to a truthy JSON value and the ok
\* flag is true; when the body did not parse, or parsed to a falsy value
\* (null, false, 0, ""), it throws ASSETS_API_RESPONSE_DECODE_ERROR for status
\* 200, ASSETS_API_UNAUTHORIZED for 401, ASSETS_API_RESPONSE_ERROR for any
\* other status; when the body parsed to a truthy value and the ok flag is
\* false it throws ASSETS_API_RESPONSE_ERROR.
C20_Classification ==
    \A p \in Procs :
        Fetched(p) =>
            ares[p] = Classified(aresp[p], aresp[p].body.parses /\ aresp[p].body.truthy)

\* C20 witness: a 401 response whose body parsed to a falsy value made request
\* throw ASSETS_API_UNAUTHORIZED
C20_Witness ==
    \E p \in Procs :
        /\ Fetched(p)
        /\ aresp[p].status = 401
        /\ aresp[p].body.parses /\ ~aresp[p].body.truthy
        /\ ares[p] = ApiError("ASSETS_API_UNAUTHORIZED")

\* C20 witness: a 500 response whose body holds ok: true made request return
C20_WitnessBodyOk ==
    \E p \in Procs :
        /\ Fetched(p)
        /\ aresp[p].status = 500 /\ aresp[p].body.ok = "true"
        /\ ares[p] = Returned

\* the run has submitted the CKB transaction
Submitted == sent >= 1

\* C21: in a polling loop the CKB transaction is submitted (sendCkbTx is
\* called) at most once per run, also when a tick is still awaiting the proof
\* while the next tick fires, and a run whose proof becomes available
\* eventually submits the CKB transaction.
C21_Original ==
    /\ [](sent <= 1)
    /\ ready ~> Submitted

\* C21, the parts the loop keeps: a callback that obtains the proof clears the
\* interval, no tick fires once it is cleared, a callback calls sendCkbTx at
\* most once, and a run whose proof is available eventually calls sendCkbTx
\* unless a callback catches an error
C21_Cleared ==
    [][/\ \A t \in Ticks :
             (tpc[t] = "getRgbppSpvProof" /\ tpc'[t] \in {"appendCkbTxWitnesses", "caught"})
                 => ~interval'
       /\ ~interval =>
             /\ ~interval'
             /\ \A t \in Ticks : tpc[t] = "idle" => tpc'[t] = "idle"
       /\ sent' <= sent + 1]_vars

C21_SentByCallback ==
    sent = Cardinality({ t \in Ticks : tpc[t] \in {"sendCkbTx", "done"} })

C21_EventuallySubmits == ready ~> (Submitted \/ rejected)

\* the proof was obtained and the interval cleared, appendCkbTxWitnesses or a
\* step before sendCkbTx failed, and nothing was or will be submitted
C21_NeverSubmitted ==
    /\ ~interval /\ ready /\ sent = 0
    /\ \A t \in Ticks : tpc[t] \in {"idle", "caught"}

\* two callbacks were awaiting the proof when it became available, and both
\* have called sendCkbTx after the interval was cleared
C21_SentTwice ==
    /\ ~interval
    /\ sent = 2
    /\ Cardinality({ t \in Ticks : tpc[t] \in {"sendCkbTx", "done"} }) = 2

====
